---- MODULE Spec2Model ----
(***************************************************************************)
(* globotopo: read-only access to the Smith-Sandwell topography grid.      *)
(*                                                                         *)
(* The model follows src/globotopo/globotopo.py (longitudes in             *)
(* [-180,180)) and src/globotopo/topodata.py (longitudes in [0,360)).      *)
(*                                                                         *)
(* Units.  Angles are integers counted in half grid cells of longitude:    *)
(* the grid step (1/60 degree in the source) is 2, the cell centres        *)
(* (k/60 + 1/120) are the odd numbers 2k+1, and 360 degrees is Circ =      *)
(* 2*NLon.  Latitudes are integers given by an odd, strictly increasing    *)
(* map Gd that stands for the inverse Mercator transform.                  *)
(*                                                                         *)
(* Indices.  Index VALUES (jsouth, ieast, ...) are the 0-based numbers of  *)
(* the Python code; sequences are 1-based, so element k of a Python array  *)
(* is s[k+1].                                                              *)
(***************************************************************************)
EXTENDS Integers, Sequences, FiniteSets, TLC

\* ------------------------------------------------------------- bounds
\* Number of grid columns (self.nlon, 21600 in the source), scaled down.
NLon == 4
\* Number of grid rows (self.nlat, 17280 in the source), scaled down.
NLat == 4
\* Largest subsample factor a caller passes.
MaxSub == 3
\* Largest entry of the axes handed to searchsorted_left / searchsorted_right.
AxisTop == 4
\* Number of writes callers make into returned arrays.
MaxWrites == 1

\* ------------------------------------------------------------- helpers
Abs(x) == IF x < 0 THEN -x ELSE x
Max2(a, b) == IF a > b THEN a ELSE b
Min2(a, b) == IF a < b THEN a ELSE b
SetMax(S) == CHOOSE x \in S : \A y \in S : y <= x
SetMin(S) == CHOOSE x \in S : \A y \in S : x <= y
Range(s) == {s[i] : i \in 1..Len(s)}
CeilDiv(n, k) == (n + k - 1) \div k

\* 360 degrees and 180 degrees in model units.
Circ == 2 * NLon
Half == NLon

\* subsample=None
None == 0

\* ------------------------------------------------------------- numpy
\* a[lo:hi] for 0 <= lo, 0 <= hi <= len(a): elements lo .. hi-1.
Slice(s, lo, hi) == [i \in 1..Max2(0, Min2(hi, Len(s)) - lo) |-> s[lo + i]]

\* Slip: every k-th element counted from index k-1.
Stride_off(s, k) == [i \in 1..(Len(s) \div k) |-> s[i * k]]

\* a[::k], k a positive integer: every k-th element, starting at index 0.
Stride(s, k) == [i \in 1..CeilDiv(Len(s), k) |-> s[(i - 1) * k + 1]]

\* a[::-1] and np.flipud(a): the elements (rows) in reverse order.
Reverse(s) == [i \in 1..Len(s) |-> s[Len(s) + 1 - i]]

\* np.argsort(s): the (0-based) indices that sort s, ties in index order.
ArgSort(s) ==
    [i \in 1..Len(s) |->
        (CHOOSE k \in 1..Len(s) :
            Cardinality({m \in 1..Len(s) :
                s[m] < s[k] \/ (s[m] = s[k] /\ m < k)}) = i - 1) - 1]

\* np.searchsorted(data, v, side='left') on a sorted 1-d array: the number
\* of entries < v;  side='right': the number of entries <= v.
NpSearchLeft(data, v) == Cardinality({i \in 1..Len(data) : data[i] < v})
NpSearchRight(data, v) == Cardinality({i \in 1..Len(data) : data[i] <= v})

\* A 2-d array: nr rows, nc columns, v[i][j] its entries.
Arr2(rows, ncols) == [nr |-> Len(rows), nc |-> ncols, v |-> rows]
NoArr == [nr |-> 0, nc |-> 0, v |-> <<>>]

\* np.meshgrid(x, y): two arrays of shape (len(y), len(x)).
MeshX(x, y) == Arr2([i \in 1..Len(y) |-> x], Len(x))
MeshY(x, y) == Arr2([i \in 1..Len(y) |-> [j \in 1..Len(x) |-> y[i]]], Len(x))

\* ------------------------------------------------------------- geometry
\* Inverse Mercator transform 2*arctan(exp(y))/rad - 90 of the ordinate y (in
\* half rows): odd, strictly increasing, rows closer together towards the poles.
Gd(y) == y * (2 * (NLat + 1) - Abs(y))

\* self.maxlat, self.minlat: the latitudes of the grid's north and south edges.
maxlat == Gd(NLat)
minlat == -Gd(NLat)

\* arg2 = log(tan(rad*(90 - maxlat)/2)): minus the Mercator ordinate of maxlat.
MercArg2 == -NLat
\* arg1 = rad*(nlat - inds + 0.5)/60 for inds = 1..nlat.
MercArg1(ind) == 2 * (NLat - ind) + 1

\* self.lat: the latitude of every row centre, flipped to increase northwards.
LatAxis == Reverse([ind \in 1..NLat |-> Gd(MercArg1(ind) + MercArg2)])

\* np.linspace(0, 360-1/60, nlon) + 1/120: the cell centres in [0, 360).
LonRaw == [k \in 1..NLon |-> 2 * (k - 1) + 1]

\* The image file: NLat rows of NLon samples, row-major, all samples distinct.
File0 == [r \in 1..NLat |-> [c \in 1..NLon |-> (r - 1) * NLon + c]]

\* globotopo.py: lon[imid:] -= 360, then both lon and the columns are sorted.
imid == NLon \div 2
LonShifted == [k \in 1..NLon |-> IF k - 1 >= imid THEN LonRaw[k] - Circ ELSE LonRaw[k]]
isort == ArgSort(LonShifted)
LonSorted == [j \in 1..NLon |-> LonShifted[isort[j] + 1]]
TakeColumns(tm, idx) == [r \in 1..Len(tm) |-> [j \in 1..Len(idx) |-> tm[r][idx[j] + 1]]]

\* Slip: the longitudes sorted, the columns of the grid left in file order.
Construct_lononly(module, f) ==
    [lat |-> LatAxis,
     lon |-> IF module = "globotopo" THEN LonSorted ELSE LonRaw,
     topomem |-> Reverse(f)]

\* smithsandwell.__init__ of either module: the handle's lat, lon and topomem.
Construct(module, f) ==
    IF module = "globotopo"
    THEN [lat |-> LatAxis, lon |-> LonSorted, topomem |-> TakeColumns(Reverse(f), isort)]
    ELSE [lat |-> LatAxis, lon |-> LonRaw, topomem |-> Reverse(f)]

\* ------------------------------------------------------------- index lookup
\* Slip: one index further left than the entry just left of leftside.
searchsorted_left_wide(data, leftside) == Max2(NpSearchLeft(data, leftside) - 2, 0)

\* Slips: the other side of the search.
searchsorted_left_side(data, leftside) == Max2(NpSearchRight(data, leftside) - 1, 0)
searchsorted_right_side(data, rightside) ==
    Min2(NpSearchLeft(data, rightside), Len(data) - 1)

\* searchsorted_left / searchsorted_right on a one-dimensional array.
searchsorted_left(data, leftside) == Max2(NpSearchLeft(data, leftside) - 1, 0)
searchsorted_right(data, rightside) ==
    Min2(NpSearchRight(data, rightside), Len(data) - 1)

\* ------------------------------------------------------------- outcomes
\* What a call leaves with its caller.  lat, lon and topo are the returned
\* triple; index is the value of a searchsorted_* call.  lookups counts the
\* boundary-index lookups the call made and reads tells whether topomem was
\* read.  view tells whether topo shares memory with the handle's topomem
\* and, if so, which (0-based) rows and columns of it.
NoView == [on |-> FALSE, rows |-> <<>>, cols |-> <<>>]
NoOutcome ==
    [status |-> "none", err |-> "", lat |-> NoArr, lon |-> NoArr, topo |-> NoArr,
     index |-> 0, lookups |-> 0, reads |-> FALSE, view |-> NoView]
Raise(kind) == [NoOutcome EXCEPT !.status = "error", !.err = kind]
Return3(rlat, rlon, rtopo, ncols, view) ==
    [NoOutcome EXCEPT !.status = "ok",
                      !.lat = MeshY(rlon, rlat), !.lon = MeshX(rlon, rlat),
                      !.topo = Arr2(rtopo, ncols), !.view = view]

\* raise ValueError("...") raises ValueError.  raise(ValueError, "...") raises
\* a tuple: Python 2 raises its first element, Python 3 raises TypeError.
RaiseKinds(module) ==
    IF module = "globotopo" THEN {"ValueError"} ELSE {"ValueError", "TypeError"}

\* ------------------------------------------------------------- get_all
\* a[::k, ::k] of a 2-d array given as its rows.
Stride2(rows, k) == [i \in 1..Len(Stride(rows, k)) |-> Stride(Stride(rows, k)[i], k)]

\* The 0-based indices lo .. hi-1.
Indices(lo, hi) == [i \in 1..Max2(0, hi - lo) |-> lo + i - 1]

\* Slip: the grid read without np.flipud, north first.
GetAll_noflip(h, subsample) ==
    [NoOutcome EXCEPT !.status = "ok", !.reads = TRUE,
        !.lat = MeshY(Stride(h.lon, subsample), Stride(h.lat, subsample)),
        !.lon = MeshX(Stride(h.lon, subsample), Stride(h.lat, subsample)),
        !.topo = Arr2(Stride2(Reverse(h.topomem), subsample),
                      Len(Stride(h.lon, subsample)))]

\* get_all of either module: topomem[::subsample, ::subsample] is a view of the
\* handle's grid; np.meshgrid copies lat[::subsample] and lon[::subsample].
GetAll(h, subsample) ==
    LET topo == Stride2(h.topomem, subsample)
        rlat == Stride(h.lat, subsample)
        rlon == Stride(h.lon, subsample)
    IN  [Return3(rlat, rlon, topo, Len(rlon),
                 [on |-> TRUE,
                  rows |-> Stride(Indices(0, Len(h.lat)), subsample),
                  cols |-> Stride(Indices(0, Len(h.lon)), subsample)])
         EXCEPT !.reads = TRUE]

\* ------------------------------------------------------------- get_region
\* Slip: south and north taken in the order given.
SortSN_asgiven(region) == <<region[1], region[2]>>

\* np.sort(np.array(region)[[0, 1]])
SortSN(region) == <<Min2(region[1], region[2]), Max2(region[1], region[2])>>

\* The longitude bounds the module's validation accepts.
LonLo(module) == IF module = "globotopo" THEN -Half ELSE 0
LonHi(module) == IF module = "globotopo" THEN Half ELSE Circ

\* Slip: the last elif, the test for a degenerate rectangle, left out.
Refused_nounique(module, south, north, west, east) ==
    \/ ~(LonLo(module) <= east /\ east <= LonHi(module))
    \/ ~(LonLo(module) <= west /\ west <= LonHi(module))
    \/ south < minlat \/ north > maxlat

\* The if / elif / elif chain that raises: TRUE when the region is refused.
Refused(module, south, north, west, east) ==
    IF ~(LonLo(module) <= east /\ east <= LonHi(module))
       \/ ~(LonLo(module) <= west /\ west <= LonHi(module))
    THEN TRUE
    ELSE IF south < minlat \/ north > maxlat
    THEN TRUE
    ELSE east = west \/ south = north

\* topomem[jsouth:jnorth, iwest:ieast]
Cut(tm, jsouth, jnorth, iwest, ieast) ==
    [r \in 1..Max2(0, jnorth - jsouth) |-> Slice(tm[jsouth + r], iwest, ieast)]

\* Slip: the eastern part pasted first, the longitudes left as they are.
GlueTopo_eastfirst(tm, jsouth, jnorth, iwest, ieast) ==
    [r \in 1..(jnorth - jsouth) |->
        [c \in 1..(ieast + NLon - iwest) |->
            IF c <= ieast THEN tm[jsouth + r][c]
                          ELSE tm[jsouth + r][iwest + c - ieast]]]

\* The two assignments into rtopo = np.zeros((nrlat, nreast+nrwest)):
\* rtopo[:, nrwest:] = topomem[jsouth:jnorth, :ieast] and
\* rtopo[:, :nrwest] = topomem[jsouth:jnorth, iwest:].
GlueTopo(tm, jsouth, jnorth, iwest, ieast) ==
    LET nrlat == jnorth - jsouth
        nreast == ieast
        nrwest == NLon - iwest
    IN  [r \in 1..nrlat |->
            [c \in 1..(nreast + nrwest) |->
                IF c > nrwest THEN tm[jsouth + r][c - nrwest]
                              ELSE tm[jsouth + r][iwest + c]]]

\* Slip: no part is shifted by 360.
GlueLon_noshift(module, ln, iwest, ieast) ==
    [c \in 1..(ieast + NLon - iwest) |->
        IF c > NLon - iwest THEN ln[c - (NLon - iwest)] ELSE ln[iwest + c]]

\* The two assignments into rlon = np.zeros(nreast+nrwest).  globotopo.py adds
\* 360 to the eastern part; topodata.py subtracts 360 from the western part.
GlueLon(module, ln, iwest, ieast) ==
    LET nreast == ieast
        nrwest == NLon - iwest
    IN  [c \in 1..(nreast + nrwest) |->
            IF module = "globotopo"
            THEN (IF c > nrwest THEN ln[c - nrwest] + Circ ELSE ln[iwest + c])
            ELSE (IF c > nrwest THEN ln[c - nrwest] ELSE ln[iwest + c] - Circ)]

\* get_region of either module.  kind is the exception a refusal raises.
GetRegion(module, h, region, subsample, kind) ==
    LET south == SortSN(region)[1]
        north == SortSN(region)[2]
        west == region[3]
        east == region[4]
        acrossdateline == west > east
        jsouth == searchsorted_left(h.lat, south)
        jnorth == searchsorted_right(h.lat, north)
        iwest == searchsorted_left(h.lon, west)
        ieast == searchsorted_right(h.lon, east)
        rlat == Slice(h.lat, jsouth, jnorth)
        rtopo == IF acrossdateline
                 THEN GlueTopo(h.topomem, jsouth, jnorth, iwest, ieast)
                 ELSE Cut(h.topomem, jsouth, jnorth, iwest, ieast)
        rlon == IF acrossdateline
                THEN GlueLon(module, h.lon, iwest, ieast)
                ELSE Slice(h.lon, iwest, ieast)
        view == IF acrossdateline
                THEN NoView
                ELSE [on |-> TRUE, rows |-> Indices(jsouth, jnorth),
                      cols |-> Indices(iwest, ieast)]
        out == IF subsample = None
               THEN Return3(rlat, rlon, rtopo, Len(rlon), view)
               ELSE Return3(Stride(rlat, subsample), Stride(rlon, subsample),
                            Stride2(rtopo, subsample),
                            Len(Stride(rlon, subsample)),
                            [view EXCEPT !.rows = Stride(@, subsample),
                                         !.cols = Stride(@, subsample)])
    IN  IF Refused(module, south, north, west, east)
        THEN Raise(kind)
        ELSE [out EXCEPT !.lookups = 4, !.reads = TRUE]

\* searchsorted_left / searchsorted_right as called: an array of more than one
\* dimension is refused before any search.
SearchLeftCall(data, leftside, kind) ==
    IF data.ndim > 1 THEN Raise(kind)
    ELSE [NoOutcome EXCEPT !.status = "ok", !.lookups = 1,
                           !.index = searchsorted_left(data.v, leftside)]
SearchRightCall(data, rightside, kind) ==
    IF data.ndim > 1 THEN Raise(kind)
    ELSE [NoOutcome EXCEPT !.status = "ok", !.lookups = 1,
                           !.index = searchsorted_right(data.v, rightside)]

\* ------------------------------------------------------------- get_latlon_box
\* globaldata of topotool/globotopo.py is built like topodata.py's handle:
\* longitudes in [0, 360), rows flipped, columns in file order.

\* The if / elif / elif chain of get_latlon_box: TRUE when the box is refused.
BoxRefused(south, north, west, east) ==
    IF east < -Half \/ west > Half
    THEN TRUE
    ELSE IF south < minlat \/ north > maxlat
    THEN TRUE
    ELSE east = west \/ south = north

\* "Convert to coordinates between 0 and 360".
To360(x) == IF x < 0 THEN x + Circ ELSE x

\* a[...] = b for two arrays of the same number of rows: the widths must be
\* equal, or b must have one column, which numpy repeats.
Broadcasts(targetwidth, sourcewidth) ==
    sourcewidth = targetwidth \/ sourcewidth = 1

\* The one-dimensional arrays boxlat, boxlon and the array boxtopo as returned;
\* a one-dimensional array is held as a single row.
ReturnBox(boxlat, boxlon, boxtopo, view) ==
    [NoOutcome EXCEPT !.status = "ok", !.lookups = 4, !.reads = TRUE,
                      !.lat = Arr2(<<boxlat>>, Len(boxlat)),
                      !.lon = Arr2(<<boxlon>>, Len(boxlon)),
                      !.topo = Arr2(boxtopo, Len(boxlon)), !.view = view]

\* globaldata.get_latlon_box.  kind is the exception a refusal raises.  In the
\* branch for a box across Greenwich the two pastes into boxtopo raise
\* ValueError unless the widths fit, and boxlon is stored into before it is
\* ever assigned, which raises UnboundLocalError.
GetLatLonBox(h, box, kind) ==
    LET south == SortSN(box)[1]
        north == SortSN(box)[2]
        west == To360(box[3])
        east == To360(box[4])
        acrossgreenwich == west > east
        iwest == NpSearchLeft(h.lon, west)
        ieast == NpSearchRight(h.lon, east)
        jsouth == NpSearchLeft(h.lat, south)
        jnorth == NpSearchRight(h.lat, north)
        nboxeast == NLon - ieast
        nboxwest == iwest
    IN  IF BoxRefused(south, north, box[3], box[4])
        THEN Raise(kind)
        ELSE IF ~acrossgreenwich
        THEN ReturnBox(Slice(h.lat, jsouth, jnorth), Slice(h.lon, iwest, ieast),
                       Cut(h.topomem, jsouth, jnorth, iwest, ieast),
                       [on |-> TRUE, rows |-> Indices(jsouth, jnorth),
                        cols |-> Indices(iwest, ieast)])
        ELSE IF ~Broadcasts(nboxwest, NLon - iwest)
        THEN [Raise("ValueError") EXCEPT !.lookups = 4, !.reads = TRUE]
        ELSE IF ~Broadcasts(nboxeast, ieast)
        THEN [Raise("ValueError") EXCEPT !.lookups = 4, !.reads = TRUE]
        ELSE [Raise("UnboundLocalError") EXCEPT !.lookups = 4, !.reads = TRUE]

\* ------------------------------------------------------------- inputs
Modules == {"globotopo", "topodata"}
\* The classes a handle is built from: smithsandwell of either module, or
\* globaldata of topotool/globotopo.py.
Classes == Modules \cup {"topotool"}

\* The strictly increasing sequence of the elements of S.
SortedSeq(S) ==
    [i \in 1..Cardinality(S) |->
        CHOOSE x \in S : Cardinality({y \in S : y < x}) = i - 1]

\* Arrays handed to the searches: every strictly increasing one-dimensional
\* array over 1..AxisTop, the grid's axes, and one two-dimensional array.
SearchArrays ==
    {[ndim |-> 1, v |-> SortedSeq(S)] : S \in SUBSET (1..AxisTop)}
    \cup {[ndim |-> 1, v |-> LatAxis], [ndim |-> 1, v |-> LonSorted]}
    \cup {[ndim |-> 2, v |-> <<>>]}
SearchValues == (0..(AxisTop + 1)) \cup Range(LatAxis) \cup Range(LonSorted)

\* Latitudes of the queries: outside the grid, on its edges, between an edge
\* and the nearest row centre, on row centres and between them.
LatQ ==
    {minlat - 1, minlat, minlat + 1, maxlat - 1, maxlat, maxlat + 1}
    \cup Range(LatAxis)
    \cup {LatAxis[i] + 1 : i \in 1..NLat}
\* Longitudes of the queries: every cell centre, every cell edge, and one
\* step beyond the bounds the module accepts.
LonQ(module) == (LonLo(module) - 1)..(LonHi(module) + 1)
Regions(module) == LatQ \X LatQ \X LonQ(module) \X LonQ(module)
Subsamples == {None} \cup (1..MaxSub)

\* The boxes handed to get_latlon_box: longitudes between +/-180 and one step
\* beyond.
Boxes == LatQ \X LatQ \X ((-Half - 1)..(Half + 1)) \X ((-Half - 1)..(Half + 1))

\* The few queries made by callers that also write into what they get.
FewRegions(module) == {minlat, maxlat} \X {minlat, maxlat} \X {0, 1, Half} \X {0, 1, Half}

\* ------------------------------------------------------------- state
VARIABLES
    impl,       \* the module the handle was built from
    lat,        \* self.lat
    lon,        \* self.lon
    topomem,    \* self.topomem
    file,       \* the samples of the image file, as stored
    pc,         \* "idle", "returned" (a call just ended), "written"
    call,       \* the last call and its arguments
    result,     \* what the last call left with its caller
    nwrites     \* writes made by callers so far

vars == <<impl, lat, lon, topomem, file, pc, call, result, nwrites>>

Handle == [lat |-> lat, lon |-> lon, topomem |-> topomem]

NoCall ==
    [op |-> "none", region |-> <<0, 0, 0, 0>>, subsample |-> None,
     data |-> [ndim |-> 1, v |-> <<>>], value |-> 0]

Init ==
    /\ impl \in Classes
    /\ file = File0
    /\ lat = Construct(impl, File0).lat
    /\ lon = Construct(impl, File0).lon
    /\ topomem = Construct(impl, File0).topomem
    /\ pc = "idle"
    /\ call = NoCall
    /\ result = NoOutcome
    /\ nwrites = 0

Returns(c, r) ==
    /\ call' = c
    /\ result' = r
    /\ pc' = "returned"
    /\ UNCHANGED <<impl, lat, lon, topomem, file, nwrites>>

CallGetAll ==
    /\ pc = "idle"
    /\ impl \in Modules
    /\ \E k \in 1..MaxSub :
        Returns([NoCall EXCEPT !.op = "get_all", !.subsample = k],
                GetAll(Handle, k))

CallGetRegion(R, S) ==
    /\ pc = "idle"
    /\ impl \in Modules
    /\ \E region \in R, k \in S, kind \in RaiseKinds(impl) :
        Returns([NoCall EXCEPT !.op = "get_region", !.region = region,
                               !.subsample = k],
                GetRegion(impl, Handle, region, k, kind))

CallSearchLeft ==
    /\ pc = "idle"
    /\ impl \in Modules
    /\ \E data \in SearchArrays, v \in SearchValues, kind \in RaiseKinds(impl) :
        Returns([NoCall EXCEPT !.op = "searchsorted_left", !.data = data,
                               !.value = v],
                SearchLeftCall(data, v, kind))

CallSearchRight ==
    /\ pc = "idle"
    /\ impl \in Modules
    /\ \E data \in SearchArrays, v \in SearchValues, kind \in RaiseKinds(impl) :
        Returns([NoCall EXCEPT !.op = "searchsorted_right", !.data = data,
                               !.value = v],
                SearchRightCall(data, v, kind))

CallGetLatLonBox ==
    /\ pc = "idle"
    /\ impl = "topotool"
    /\ \E box \in Boxes, kind \in RaiseKinds(impl) :
        Returns([NoCall EXCEPT !.op = "get_latlon_box", !.region = box],
                GetLatLonBox(Handle, box, kind))

\* The caller drops what it was given.
Discard ==
    /\ pc # "idle"
    /\ pc' = "idle"
    /\ call' = NoCall
    /\ result' = NoOutcome
    /\ UNCHANGED <<impl, lat, lon, topomem, file, nwrites>>

\* The caller stores x at [i, j] of one of the three arrays it was given.
\* The meshes are copies.  topo is a slice of self.topomem unless it was glued
\* from two parts; topodata.py's topomem is itself a view of the writable
\* memory map of the file.
CallerWrite ==
    /\ pc \in {"returned", "written"}
    /\ call.op \in {"get_all", "get_region"}
    /\ result.status = "ok"
    /\ nwrites < MaxWrites
    /\ \E which \in {"lat", "lon", "topo"}, x \in {-1} :
       \E i \in 1..result[which].nr, j \in 1..result[which].nc :
          /\ result' = [result EXCEPT ![which].v[i][j] = x]
          /\ topomem' =
                IF which = "topo" /\ result.view.on
                THEN [topomem EXCEPT
                        ![result.view.rows[i] + 1][result.view.cols[j] + 1] = x]
                ELSE topomem
          /\ file' = IF impl = "topodata" THEN Reverse(topomem') ELSE file
    /\ nwrites' = nwrites + 1
    /\ pc' = "written"
    /\ UNCHANGED <<impl, lat, lon, call>>

Next ==
    \/ CallGetAll
    \/ CallGetRegion(Regions(impl), Subsamples)
    \/ CallSearchLeft
    \/ CallSearchRight
    \/ CallGetLatLonBox
    \/ Discard

Spec == Init /\ [][Next]_vars

NextAlias ==
    \/ CallGetAll
    \/ CallGetRegion(FewRegions(impl), Subsamples)
    \/ CallerWrite
    \/ Discard

SpecAlias == Init /\ [][NextAlias]_vars

\* ------------------------------------------------------------- properties
\* The grid step of the longitude axis.
Step == Circ \div NLon

Returned(op) == pc = "returned" /\ call.op = op
RegionOk == Returned("get_region") /\ result.status = "ok"
Wraps == call.region[3] > call.region[4]
Unsampled == call.subsample \in {None, 1}

\* Every row of the array has nc entries.
Rectangular(a) == Len(a.v) = a.nr /\ \A i \in 1..a.nr : Len(a.v[i]) = a.nc

\* C1: the three arrays get_region returns have one shape, and data[i,j] is
\* the handle's sample at the row whose latitude is latMesh[i,j] and the column
\* whose longitude is congruent to lonMesh[i,j] modulo 360.
C1_DataAtMeshPoint ==
    RegionOk =>
        /\ Rectangular(result.lat) /\ Rectangular(result.lon)
        /\ Rectangular(result.topo)
        /\ result.lat.nr = result.topo.nr /\ result.lat.nc = result.topo.nc
        /\ result.lon.nr = result.topo.nr /\ result.lon.nc = result.topo.nc
        /\ \A i \in 1..result.topo.nr, j \in 1..result.topo.nc :
              \E r \in 1..Len(lat), c \in 1..Len(lon) :
                  /\ lat[r] = result.lat.v[i][j]
                  /\ (lon[c] - result.lon.v[i][j]) % Circ = 0
                  /\ topomem[r][c] = result.topo.v[i][j]

\* A subsampled region glued across the seam, two rows and two columns at least.
C1_Witness ==
    /\ RegionOk /\ Wraps /\ call.subsample = 2
    /\ result.topo.nr >= 2 /\ result.topo.nc >= 2

\* C2: when west > east the returned longitudes increase strictly from end to
\* end, and without subsampling neighbours differ by exactly one grid step,
\* the two neighbours at the seam included.
C2_WrapLonIncreasing ==
    (RegionOk /\ Wraps) =>
        \A i \in 1..result.lon.nr, j \in 1..(result.lon.nc - 1) :
            /\ result.lon.v[i][j] < result.lon.v[i][j + 1]
            /\ Unsampled => result.lon.v[i][j + 1] - result.lon.v[i][j] = Step

\* A glued region with columns from both sides of the seam.
C2_Witness ==
    /\ RegionOk /\ Wraps /\ Unsampled /\ result.lon.nr >= 1
    /\ \E j \in 1..(result.lon.nc - 1) :
          /\ result.lon.v[1][j] < LonHi(impl) - (IF impl = "topodata" THEN Circ ELSE 0)
          /\ result.lon.v[1][j + 1] > LonHi(impl) - (IF impl = "topodata" THEN Circ ELSE 0)

StrictlyIncreasing(s) == \A i \in 1..(Len(s) - 1) : s[i] < s[i + 1]
SearchOk(op) ==
    /\ Returned(op) /\ result.status = "ok"
    /\ call.data.ndim = 1 /\ StrictlyIncreasing(call.data.v)

\* The 0-based indices of the entries of s that satisfy P.
AtOrBefore(s, v) == {i \in 0..(Len(s) - 1) : s[i + 1] <= v}
Before(s, v) == {i \in 0..(Len(s) - 1) : s[i + 1] < v}
AtOrAfter(s, v) == {i \in 0..(Len(s) - 1) : s[i + 1] >= v}
After(s, v) == {i \in 0..(Len(s) - 1) : s[i + 1] > v}

\* C3 as stated: searchsorted_left returns the largest index i with
\* axis[i] <= value, or 0 if value precedes all entries; on the latitude axis
\* searchsorted_left(latitude, latitude[i]) = i.
C3_AsStated ==
    SearchOk("searchsorted_left") =>
        result.index =
            IF AtOrBefore(call.data.v, call.value) = {} THEN 0
            ELSE SetMax(AtOrBefore(call.data.v, call.value))

\* C3 amended: searchsorted_left returns the largest index i with
\* axis[i] < value, or 0 if no entry is below value; on the latitude axis
\* searchsorted_left(latitude, latitude[i]) = max(i - 1, 0).
C3_LeftStrictlyBelow ==
    SearchOk("searchsorted_left") =>
        /\ result.index =
              IF Before(call.data.v, call.value) = {} THEN 0
              ELSE SetMax(Before(call.data.v, call.value))
        /\ call.data.v = lat =>
              \A i \in 0..(Len(lat) - 1) :
                  call.value = lat[i + 1] => result.index = Max2(i - 1, 0)

\* searchsorted_left(latitude, latitude[i]) for a row i >= 1.
C3_Witness ==
    /\ SearchOk("searchsorted_left") /\ call.data.v = lat
    /\ \E i \in 1..(Len(lat) - 1) : call.value = lat[i + 1]

\* C4 as stated: searchsorted_right returns the smallest index i with
\* axis[i] >= value, or len(axis)-1 if value exceeds all entries; on the
\* latitude axis searchsorted_right(latitude, latitude[i]) = i.
C4_AsStated ==
    SearchOk("searchsorted_right") =>
        result.index =
            IF AtOrAfter(call.data.v, call.value) = {} THEN Len(call.data.v) - 1
            ELSE SetMin(AtOrAfter(call.data.v, call.value))

\* C4 amended: searchsorted_right returns the smallest index i with
\* axis[i] > value, or len(axis)-1 if no entry is above value; on the latitude
\* axis searchsorted_right(latitude, latitude[i]) = min(i + 1, N_lat - 1).
C4_RightStrictlyAbove ==
    SearchOk("searchsorted_right") =>
        /\ result.index =
              IF After(call.data.v, call.value) = {} THEN Len(call.data.v) - 1
              ELSE SetMin(After(call.data.v, call.value))
        /\ call.data.v = lat =>
              \A i \in 0..(Len(lat) - 1) :
                  call.value = lat[i + 1] =>
                      result.index = Min2(i + 1, Len(lat) - 1)

\* searchsorted_right(latitude, latitude[i]) for a row i below the last.
C4_Witness ==
    /\ SearchOk("searchsorted_right") /\ call.data.v = lat
    /\ \E i \in 0..(Len(lat) - 2) : call.value = lat[i + 1]

\* C5 as stated: get_all(subsample=1) returns arrays of shape (N_lat, N_lon)
\* and data equal to the raw backing grid, row for row and column for column.
C5_AsStated ==
    (Returned("get_all") /\ call.subsample = 1) =>
        /\ result.topo.nr = NLat /\ result.topo.nc = NLon
        /\ result.topo.v = file

\* C5 amended: get_all(subsample=1) returns meshes and data of shape
\* (N_lat, N_lon), and data equal to the handle's grid topomem, row for row
\* and column for column (topomem is built from the file with its rows
\* reversed, and in globotopo.py its columns reordered).
C5_GetAllIsTopomem ==
    (Returned("get_all") /\ call.subsample = 1) =>
        /\ result.status = "ok"
        /\ Rectangular(result.lat) /\ Rectangular(result.lon)
        /\ Rectangular(result.topo)
        /\ \A a \in {result.lat, result.lon, result.topo} :
              a.nr = NLat /\ a.nc = NLon
        /\ \A i \in 1..NLat, j \in 1..NLon :
              /\ result.topo.v[i][j] = topomem[i][j]
              /\ result.lat.v[i][j] = lat[i]
              /\ result.lon.v[i][j] = lon[j]

\* get_all(subsample=1) has returned.
C5_Witness ==
    Returned("get_all") /\ call.subsample = 1 /\ result.topo.nr = NLat

\* The (1-based) grid row of latitude x.
RowOf(x) == CHOOSE r \in 1..NLat : lat[r] = x

\* C6: when west < east every returned longitude lies in [west, east] widened
\* by one grid step on each side, and without subsampling the returned columns
\* are the grid's columns iwest .. ieast-1, the boundary indices of the query.
C6_NoWrapContained ==
    (RegionOk /\ ~Wraps) =>
        /\ \A i \in 1..result.lon.nr, j \in 1..result.lon.nc :
              /\ call.region[3] - Step <= result.lon.v[i][j]
              /\ result.lon.v[i][j] <= call.region[4] + Step
        /\ Unsampled =>
              LET cols == Indices(searchsorted_left(lon, call.region[3]),
                                  searchsorted_right(lon, call.region[4]))
              IN  /\ result.lon.nc = Len(cols)
                  /\ \A i \in 1..result.lon.nr, j \in 1..result.lon.nc :
                        /\ result.lon.v[i][j] = lon[cols[j] + 1]
                        /\ result.topo.v[i][j] =
                              topomem[RowOf(result.lat.v[i][j])][cols[j] + 1]

\* A region inside the grid, not glued, whose west is more than a step past
\* the first column and that returns rows and columns.
C6_Witness ==
    /\ RegionOk /\ ~Wraps /\ Unsampled
    /\ result.lon.nr >= 1 /\ result.lon.nc >= 2
    /\ call.region[3] > lon[1] + Step

\* C7: get_region(query, subsample=k) has ceil(len/k) rows and columns of
\* get_region(query) and holds every k-th latitude, longitude and sample of it,
\* starting at index 0 along each axis.
C7_SubsampleEveryKth ==
    (RegionOk /\ call.subsample # None) =>
        LET k == call.subsample
            u == GetRegion(impl, Handle, call.region, None, "ValueError")
        IN  /\ u.status = "ok"
            /\ \A a \in {"lat", "lon", "topo"} :
                  /\ result[a].nr = CeilDiv(u[a].nr, k)
                  /\ result[a].nc = CeilDiv(u[a].nc, k)
                  /\ \A i \in 1..result[a].nr, j \in 1..result[a].nc :
                        result[a].v[i][j] = u[a].v[(i - 1) * k + 1][(j - 1) * k + 1]

\* A subsample of 2 that drops rows and columns of a region with an odd number
\* of each.
C7_Witness ==
    /\ RegionOk /\ call.subsample = 2
    /\ result.topo.nr = 2 /\ result.topo.nc = 2
    /\ GetRegion(impl, Handle, call.region, None, "ValueError").topo.nr = 3
    /\ GetRegion(impl, Handle, call.region, None, "ValueError").topo.nc = 3

\* The regions C8 says are refused: a longitude outside the module's bounds,
\* a latitude outside [minlat, maxlat] after sorting, or a degenerate side.
MustRefuse(module, region) ==
    LET south == IF region[1] <= region[2] THEN region[1] ELSE region[2]
        north == IF region[1] <= region[2] THEN region[2] ELSE region[1]
        west == region[3]
        east == region[4]
    IN  \/ east < LonLo(module) \/ east > LonHi(module)
        \/ west < LonLo(module) \/ west > LonHi(module)
        \/ south < minlat \/ north > maxlat
        \/ east = west \/ south = north

\* C8: get_region raises its range error (ValueError in globotopo.py) for every
\* region that must be refused, before any boundary-index lookup or read of the
\* grid, and returns no array.
C8_RefusedBeforeLookup ==
    (Returned("get_region") /\ MustRefuse(impl, call.region)) =>
        /\ result.status = "error"
        /\ impl = "globotopo" => result.err = "ValueError"
        /\ result.lookups = 0 /\ ~result.reads
        /\ result.lat = NoArr /\ result.lon = NoArr /\ result.topo = NoArr

\* globotopo.py refuses a rectangle whose only fault is south = north.
C8_Witness ==
    /\ Returned("get_region") /\ impl = "globotopo"
    /\ call.region[1] = call.region[2] /\ call.region[1] = LatAxis[1]
    /\ call.region[3] = 0 /\ call.region[4] = 1
    /\ result.status = "error"

\* C9: get_region has the same outcome for [a, b, west, east] and for
\* [b, a, west, east].
C9_SouthNorthSwapped ==
    Returned("get_region") =>
        result = GetRegion(impl, Handle,
                           <<call.region[2], call.region[1],
                             call.region[3], call.region[4]>>,
                           call.subsample,
                           IF result.status = "error" THEN result.err
                                                      ELSE "ValueError")

\* A region given north first that returns rows and columns.
C9_Witness ==
    /\ RegionOk /\ call.region[1] > call.region[2]
    /\ result.topo.nr >= 2 /\ result.topo.nc >= 2

\* C10: whatever callers do, the handle's latitude axis, longitude axis and
\* grid keep the values construction gave them.
C10_HandleNeverChanges ==
    /\ lat = Construct(impl, File0).lat
    /\ lon = Construct(impl, File0).lon
    /\ topomem = Construct(impl, File0).topomem

\* C11: a handle built by globotopo.py has N_lon longitudes, strictly
\* increasing, in [-180, 180), and column j of topomem is the column of the
\* file whose cell-centred longitude in [0, 360) is congruent to lon[j]
\* modulo 360 (rows south first).
C11_ColumnsFollowLongitudes ==
    (impl = "globotopo" /\ nwrites = 0) =>
        /\ Len(lon) = NLon
        /\ StrictlyIncreasing(lon)
        /\ \A j \in 1..NLon : -Half <= lon[j] /\ lon[j] < Half
        /\ Len(topomem) = NLat
        /\ \A r \in 1..NLat : Len(topomem[r]) = NLon
        /\ \A j \in 1..NLon :
              \E k \in 1..NLon :
                  /\ (LonRaw[k] - lon[j]) % Circ = 0
                  /\ \A r \in 1..NLat : topomem[r][j] = file[NLat + 1 - r][k]

\* A freshly built globotopo.py handle: its first longitude was shifted by
\* -360 and its first column is not the first column of the file.
C11_Witness ==
    /\ impl = "globotopo" /\ pc = "idle" /\ nwrites = 0
    /\ lon[1] < 0 /\ lon[1] + Circ \in Range(LonRaw)
    /\ topomem[1][1] # file[NLat][1]

\* C12: get_latlon_box returns its triple, with strictly increasing longitudes,
\* for every box its validation lets through, whether or not the box spans
\* the Prime Meridian.
C12_BoxReturnsIncreasingLon ==
    (Returned("get_latlon_box")
        /\ ~BoxRefused(SortSN(call.region)[1], SortSN(call.region)[2],
                       call.region[3], call.region[4])) =>
        /\ result.status = "ok"
        /\ result.lon.nr = 1
        /\ StrictlyIncreasing(result.lon.v[1])

\* The longitudes of [-180, 180] congruent to x modulo 360.
Congruent(x) == {y \in (-Half)..Half : (y - x) % Circ = 0}

\* Two returned triples hold the same rows and the same samples, at
\* longitudes congruent modulo 360.
SameRegion(a, b) ==
    /\ a.status = b.status
    /\ a.lat = b.lat
    /\ a.topo = b.topo
    /\ a.lon.nr = b.lon.nr /\ a.lon.nc = b.lon.nc
    /\ \A i \in 1..a.lon.nr, j \in 1..a.lon.nc :
          (a.lon.v[i][j] - b.lon.v[i][j]) % Circ = 0

\* C13: a rectangle given to topodata.py with west/east in [0, 360] and to
\* globotopo.py with the congruent west/east in [-180, 180] (same south, north
\* and subsample) comes back with the same rows and the same columns of the
\* file in the same order, at longitudes congruent modulo 360.
C13_VersionsAgree ==
    (RegionOk /\ impl = "topodata") =>
        \A west \in Congruent(call.region[3]), east \in Congruent(call.region[4]) :
            SameRegion(result,
                       GetRegion("globotopo", Construct("globotopo", file),
                                 <<call.region[1], call.region[2], west, east>>,
                                 call.subsample, "ValueError"))

\* Every grid row with latitude in [south, north] is a row of the result.
RowsPresent ==
    \A r \in 1..NLat :
        (SortSN(call.region)[1] <= lat[r] /\ lat[r] <= SortSN(call.region)[2]) =>
            \E i \in 1..result.lat.nr :
                \A j \in 1..result.lat.nc : result.lat.v[i][j] = lat[r]

\* Every grid column with longitude in [west, east] is a column of the result.
ColumnsPresent ==
    \A c \in 1..NLon :
        (call.region[3] <= lon[c] /\ lon[c] <= call.region[4]) =>
            \E j \in 1..result.lon.nc :
                \A i \in 1..result.lon.nr : result.lon.v[i][j] = lon[c]

\* C14: a valid get_region query with west < east and no subsampling returns
\* every grid column with longitude in [west, east] and every grid row with
\* latitude in [south, north], the last column and the last row of the grid
\* included when east or north reaches or exceeds the last axis value.
C14_NothingInsideDropped ==
    (RegionOk /\ ~Wraps /\ Unsampled) => RowsPresent /\ ColumnsPresent

\* No two columns of the result are the same column of the source grid.
NoColumnTwice ==
    \A i \in 1..result.lon.nr : \A j, k \in 1..result.lon.nc :
        (result.lon.v[i][j] - result.lon.v[i][k]) % Circ = 0 => j = k

\* C15: a valid get_region query without subsampling returns no source column
\* twice; when west > east the result has at most N_lon columns, the lookups
\* satisfying ieast <= iwest.
C15_NoColumnTwice ==
    (RegionOk /\ Unsampled) =>
        /\ NoColumnTwice
        /\ Wraps =>
              /\ result.lon.nc <= NLon
              /\ searchsorted_right(lon, call.region[4])
                     <= searchsorted_left(lon, call.region[3])

\* C16: a get_region query that passes validation returns at least one row and
\* one column, its lookups satisfying 0 <= jsouth < jnorth <= N_lat-1 and,
\* when west < east, 0 <= iwest < ieast <= N_lon-1.
C16_NeverEmpty ==
    RegionOk =>
        LET jsouth == searchsorted_left(lat, SortSN(call.region)[1])
            jnorth == searchsorted_right(lat, SortSN(call.region)[2])
            iwest  == searchsorted_left(lon, call.region[3])
            ieast  == searchsorted_right(lon, call.region[4])
        IN  /\ 0 <= jsouth /\ jsouth < jnorth /\ jnorth <= NLat - 1
            /\ ~Wraps => (0 <= iwest /\ iwest < ieast /\ ieast <= NLon - 1)
            /\ result.topo.nr >= 1 /\ result.topo.nc >= 1

====
